---- MODULE Spec2Model ----
(***************************************************************************)
(* Model of package mq (internal/infra/mq): the RabbitMQ Publisher with    *)
(* its connection watcher and reconnect loop, and the Consumer with its    *)
(* Handle loop.  Source: src/unnamed/part_003.                             *)
(*                                                                         *)
(* The broker, the amqp client library and the callers of the package are  *)
(* the environment: their steps are the actions named Broker*, Env* and    *)
(* the nondeterministic results of dialFn, conn.Channel, ch.Qos, the       *)
(* handler and sonic.Marshal.                                              *)
(*                                                                         *)
(* The last part models the event hook of the editor plugin                *)
(* (src/unnamed/part_000) that stores assistant messages.                  *)
(***************************************************************************)
EXTENDS Integers, Sequences, FiniteSets, TLC

(***************************************************************************)
(* Bounds of the model.                                                    *)
(***************************************************************************)
\* messages initially in the queue the Consumer declares
NMsgs == 2
\* how many times, in total, the handler may return an error
MaxHFail == 2
\* the prefetch count given to NewConsumer (a positive value)
Prefetch == 2

\* every delivery is either a first delivery or follows a requeue
MaxTag == NMsgs + MaxHFail

Msgs == 1..NMsgs
Tags == 1..MaxTag

VARIABLES
    \* ---- Consumer.Handle (one invocation on one Consumer) ----
    cpc,        \* position of Handle: "start","select","handler","nack","ack","done"
    cret,       \* what Handle returned: "none","consumeErr","ctxErr","chanClosedErr"
    cur,        \* delivery tag m taken from msgs (0: none)
    herr,       \* whether handler(m.Body) returned an error
    ctxDone,    \* ctx.Done() is closed
    cancelAt,   \* history: Len(handled) when the context was cancelled
    \* ---- the Consumer's channel c.ch and the broker behind it ----
    cchClosed,  \* c.ch is closed (broker-side teardown or Consumer.Close)
    msgs,       \* deliveries buffered on the Go channel msgs (delivery tags)
    queue,      \* messages ready in the declared queue, head first
    unacked,    \* delivery tags the broker holds as outstanding on c.ch
    delivered,  \* delivered[t]: the message carried by delivery tag t
    removed,    \* messages the broker has removed from the queue for good
    hfailLeft,  \* errors the handler may still return
    \* ---- history of Handle, per delivery tag ----
    handled,    \* tags passed to the handler, in order
    result,     \* result[t]: "none", "ok" (handler returned nil), "err"
    ackCalls,   \* ackCalls[t]: invocations of m.Ack(false)
    nackCalls,  \* nackCalls[t]: invocations of m.Nack(false, true)
    consumeSpansStarted,  \* "rabbitmq.consume" spans started by tracer.Start
    consumeSpansEnded     \* of these, the spans whose End has run

cspans == <<consumeSpansStarted, consumeSpansEnded>>

cvars == <<cpc, cret, cur, herr, ctxDone, cancelAt, cchClosed, msgs, queue, unacked,
           delivered, removed, hfailLeft, handled, result, ackCalls, nackCalls,
           consumeSpansStarted, consumeSpansEnded>>

\* caller goroutines of the Publisher: each may call Close, and those in
\* Publishers may call PublishJSON as well
Procs == {"a", "b"}
Publishers == {"a"}
\* how many attempts of one reconnect invocation may fail (dialFn, conn.Channel
\* or ch.Qos returning an error) before an attempt succeeds
MaxFail == 2
\* the same, where the backoff is followed up to its cap and beyond
MaxBackoffFail == 6
\* how many connections the broker (or their owner) may close
MaxLoss == 2
\* how many calls of Publisher.Close the callers make
MaxClose == 2

\* every connection the Publisher comes to hold is the initial one or is
\* dialed after the loss of the one before it
MaxConn == 1 + MaxLoss
ConnIds == 1..MaxConn
\* the nil pointer
Nil == 0

\* line 129: backoff := time.Second (in seconds)
InitialBackoff == 1
\* line 130: maxBackoff := 30 * time.Second
MaxBackoff == 30

Watcher == "watcher"

VARIABLES
    \* ---- type Publisher struct, lines 49-57 ----
    conn,       \* p.conn: a connection id, or Nil
    ch,         \* p.ch: the id of the connection the channel was opened on, or Nil
    closed,     \* p.closed
    muW,        \* p.mu: the goroutine holding the write lock, or "none"
    installed,  \* history: the channel of the last completed swap (line 170),
                \* at first the one NewPublisher opened (line 67)
    \* ---- amqp connections and channels ----
    connSt,     \* connSt[c]: "none" (not dialed), "open", "closed"
    chSt,       \* chSt[c]: the channel opened on c: "none", "open", "closed"
    nDialed,    \* connection ids in use (the initial one included)
    failCap,    \* how many attempts of one reconnect invocation may fail
    lossLeft,   \* connections the broker may still close
    \* ---- goroutine watchConnection / reconnect ----
    wpc,        \* position of the watcher goroutine
    wconn,      \* watchConnection's local conn (line 97)
    backoff,    \* reconnect's local backoff, in seconds
    rconn,      \* reconnect's local conn (line 142)
    rch,        \* reconnect's local ch (line 150)
    fails,      \* failed attempts of the current reconnect invocation
    slept,      \* seconds slept by the current reconnect invocation
    \* ---- caller goroutines ----
    pc,         \* pc[p]: position of caller p
    call,       \* call[p]: p's current or last call: "none", "PublishJSON", "Close"
    lch,        \* lch[p]: PublishJSON's local ch (line 235)
    pret,       \* pret[p]: result of p's last call, "pending" while it runs
    sends,      \* sends[p]: PublishWithContext invocations of p's current/last call
    gcWouldFail,\* gcWouldFail[p]: p.closed or p.ch == nil when getChannel read them
    gcCall,     \* gcCall[p]: history of the getChannel of p's current/last call:
                \* what it read (closed, ch) and what it returned (err, out)
    spanStarted,\* spanStarted[p]: spans p's current/last PublishJSON call started
    spanEnded,  \* spanEnded[p]: invocations of span.End() in that call
    afterClose, \* afterClose[p]: p's call started after some Close() had returned
    \* ---- history of Publisher.Close ----
    closeCalls,     \* calls of Publisher.Close started so far
    closeReturned,  \* some call of Publisher.Close has returned
    chCloseCalls,   \* chCloseCalls[c]: invocations of p.ch.Close() by Publisher.Close
    dialsAfterClose \* invocations of p.dialFn started after some Close() had returned

pvars == <<conn, ch, closed, muW, installed, connSt, chSt, nDialed, failCap,
           lossLeft, wpc, wconn, backoff, rconn, rch, fails,
           slept, pc, call, lch, pret, sends, gcWouldFail, gcCall, spanStarted,
           spanEnded, afterClose, closeCalls,
           closeReturned, chCloseCalls, dialsAfterClose>>

\* the fields of the Publisher (and the channel last installed)
pstruct == <<conn, ch, closed, muW, installed>>
\* connections, channels and what the environment may still do
penv == <<connSt, chSt, nDialed, failCap, lossLeft>>
\* locals of the watcher goroutine
pwatch == <<wpc, wconn, backoff, rconn, rch, fails, slept>>
\* locals and history of the callers
pcall == <<pc, call, lch, pret, sends, gcWouldFail, gcCall, spanStarted,
           spanEnded, afterClose>>
pclose == <<closeCalls, closeReturned, chCloseCalls, dialsAfterClose>>

VARIABLES
    \* ---- tableCarrier: a header map on the publish side, its copy on the
    \* consume side, and the calls made on the adapters wrapping them ----
    tab,        \* the amqp.Table wrapped by the first adapter
    tab2,       \* the copy of it wrapped by the second adapter
    tprev,      \* history: tab before the last Set
    tkey,       \* key of the last Set
    tval,       \* value of the last Set
    tgotKey,    \* key of the last Get
    tgot,       \* what the last Get returned
    tpc         \* "init", "set", "copied", "got"

tvars == <<tab, tab2, tprev, tkey, tval, tgotKey, tgot, tpc>>

(***************************************************************************)
(* The editor plugin, src/unnamed/part_000: the capture of assistant       *)
(* output.  Session and message identifiers are the numbers 1..N (the      *)
(* handlers pass only non-empty strings on, lines 700 and 732).            *)
(***************************************************************************)
\* OpenCode sessions the plugin sees
NSessions == 1
\* assistant messages of a session
NAssistantMsgs == 2
\* event handler invocations that can be pending on an await at a time
MaxFlushTasks == 3

SessionIDs == 1..NSessions
MessageIDs == 1..NAssistantMsgs
FlushTasks == 1..MaxFlushTasks

\* the Set objects getOrInitSet creates for assistantInFlight: a flush keeps
\* a reference to the one it found, whatever the map holds later
SetObjects == 1..(NSessions + MaxFlushTasks)
NoSet == 0

VARIABLES
    \* ---- state of the plugin instance, lines 537 and 605-606 ----
    assistantStored,      \* sessionID -> set of messageIDs
    assistantInFlight,    \* sessionID -> Set object (NoSet: no entry)
    setObjects,           \* Set object -> its members
    pendingAssistantText, \* sessionID -> <<[id, text]>>, in insertion order
    \* ---- invocations of the event hook that wait on an await ----
    flush,                \* task -> [pc, reason, sessionID, messageID,
                          \*          messageIDs, inFlight]
    \* ---- history ----
    lastFlush,            \* the last invocation of flushAssistantMessage
    storeCalls,           \* <<sessionID, messageID>> -> calls of
                          \* storeAcontextMessage made for it (line 664)
    backendStored         \* <<sessionID, messageID>> -> messages the
                          \* backend has stored for it

evars == <<assistantStored, assistantInFlight, setObjects,
           pendingAssistantText, flush, lastFlush, storeCalls, backendStored>>

vars == <<cvars, pvars, tvars, evars>>

(***************************************************************************)
(* Helpers.                                                                *)
(***************************************************************************)
Min(a, b) == IF a < b THEN a ELSE b

Range(s) == {s[i] : i \in 1..Len(s)}

\* the tags of set S as a sequence in increasing order, mapped to messages
RECURSIVE TagsToMsgs(_)
TagsToMsgs(S) ==
    IF S = {} THEN <<>>
    ELSE LET t == CHOOSE x \in S : \A y \in S : x <= y
         IN <<delivered[t]>> \o TagsToMsgs(S \ {t})

(***************************************************************************)
(* tableCarrier, lines 20-44: the adapter of an amqp.Table (string keys,    *)
(* values of any type) to the propagator's text map.                       *)
(***************************************************************************)
\* the header keys the propagator uses
CarrierKeys == {"traceparent", "tracestate"}
\* the strings the propagator writes
CarrierStrings == {"", "00-4bf9-00f0-01", "00-7a08-b7ad-00"}

\* a value of the table: none, a string, or a value of another type
NoVal == [kind |-> "absent", s |-> "", n |-> 0]
StrVal(x) == [kind |-> "string", s |-> x, n |-> 0]
IntVal(i) == [kind |-> "int", s |-> "", n |-> i]
TableVals == {NoVal} \cup {StrVal(x) : x \in CarrierStrings} \cup {IntVal(7)}

\* line 29: fmt.Sprintf("%v", val), for a one-digit integer
SprintfV(val) == <<"0", "1", "2", "3", "4", "5", "6", "7", "8", "9">>[val.n + 1]

\* lines 24-32: Get
tableCarrier_Get(t, k) ==
    IF t[k].kind # "absent"
    THEN IF t[k].kind = "string" THEN t[k].s ELSE SprintfV(t[k])
    ELSE ""

\* (mutant) Set that keeps the value a key already has
tableCarrier_Set_KeepOld(t, k, v) ==
    IF t[k].kind # "absent" THEN t ELSE [t EXCEPT ![k] = StrVal(v)]

\* lines 34-36: Set
tableCarrier_Set(t, k, v) == [t EXCEPT ![k] = StrVal(v)]

\* lines 38-44: Keys (in no particular order)
tableCarrier_Keys(t) == {k \in CarrierKeys : t[k].kind # "absent"}

\* an empty table, as PublishJSON makes it at line 222
EmptyTable == [k \in CarrierKeys |-> NoVal]

CarrierInit ==
    /\ tab = EmptyTable
    /\ tab2 = EmptyTable
    /\ tprev = EmptyTable
    /\ tkey = "traceparent"
    /\ tval = ""
    /\ tgotKey = "traceparent"
    /\ tgot = ""
    /\ tpc = "init"

\* any table: the headers of a delivery come from any publisher
CarrierAnyInit ==
    /\ tab \in [CarrierKeys -> TableVals]
    /\ tab2 = EmptyTable
    /\ tprev = tab
    /\ tkey = "traceparent"
    /\ tval = ""
    /\ tgotKey = "traceparent"
    /\ tgot = ""
    /\ tpc = "init"

\* the propagator's Inject calls Set on the first adapter
Carrier_Set ==
    /\ tpc \in {"init", "set"}
    /\ \E k \in CarrierKeys, v \in CarrierStrings :
        /\ tprev' = tab
        /\ tab' = tableCarrier_Set(tab, k, v)
        /\ tkey' = k
        /\ tval' = v
    /\ tpc' = "set"
    /\ UNCHANGED <<tab2, tgotKey, tgot>>
    /\ UNCHANGED <<cvars, pvars, evars>>

\* the header map is copied (it travels with the message)
Carrier_Copy ==
    /\ tpc = "set"
    /\ tab2' = tab
    /\ tpc' = "copied"
    /\ UNCHANGED <<tab, tprev, tkey, tval, tgotKey, tgot>>
    /\ UNCHANGED <<cvars, pvars, evars>>

\* the propagator's Extract calls Get on the second adapter
Carrier_Get ==
    /\ tpc \in {"copied", "got"}
    /\ \E k \in CarrierKeys :
        /\ tgotKey' = k
        /\ tgot' = tableCarrier_Get(tab2, k)
    /\ tpc' = "got"
    /\ UNCHANGED <<tab, tab2, tprev, tkey, tval>>
    /\ UNCHANGED <<cvars, pvars, evars>>

CarrierNext ==
    \/ Carrier_Set
    \/ Carrier_Copy
    \/ Carrier_Get

\* C24: after Set(k, v) the table holds the string v under k and every other
\* key as before; Get(k) on an adapter wrapping a copy of the table returns
\* v, and Get of another key returns what it returned before the Set.
C24_CarrierRoundTrip ==
    /\ tpc \in {"set", "copied", "got"} =>
          /\ tab[tkey] = StrVal(tval)
          /\ \A k \in CarrierKeys \ {tkey} : tab[k] = tprev[k]
          /\ tkey \in tableCarrier_Keys(tab)
    /\ tpc \in {"copied", "got"} => tableCarrier_Get(tab2, tkey) = tval
    /\ tpc = "got" =>
          tgot = IF tgotKey = tkey THEN tval
                 ELSE tableCarrier_Get(tprev, tgotKey)

\* a trace identifier was set over a value of another type and read back on
\* the copy
C24_Witness ==
    /\ tpc = "got"
    /\ tgotKey = tkey
    /\ tgot = tval
    /\ tval # ""
    /\ tprev[tkey].kind = "int"

(***************************************************************************)
(* NewConsumer: the state after construction.                              *)
(***************************************************************************)
\* NewConsumer line 256: a prefetch <= 0 is replaced by 10
EffectivePrefetch(prefetch) == IF prefetch <= 0 THEN 10 ELSE prefetch

ConsumerInit ==
    /\ cpc = "start"
    /\ cret = "none"
    /\ cur = 0
    /\ herr = FALSE
    /\ ctxDone = FALSE
    /\ cancelAt = 0
    /\ cchClosed = FALSE
    /\ msgs = <<>>
    /\ queue = [i \in 1..NMsgs |-> i]
    /\ unacked = {}
    /\ delivered = <<>>
    /\ removed = {}
    /\ hfailLeft = MaxHFail
    /\ handled = <<>>
    /\ result = [t \in Tags |-> "none"]
    /\ ackCalls = [t \in Tags |-> 0]
    /\ nackCalls = [t \in Tags |-> 0]
    /\ consumeSpansStarted = 0
    /\ consumeSpansEnded = 0

(***************************************************************************)
(* The environment of the Consumer.                                        *)
(***************************************************************************)
\* the caller cancels the context given to Handle
EnvCancel ==
    /\ UNCHANGED <<pvars, tvars, evars, cspans>>
    /\ ~ctxDone
    /\ ctxDone' = TRUE
    /\ cancelAt' = Len(handled)
    /\ UNCHANGED <<cpc, cret, cur, herr, cchClosed, msgs, queue, unacked,
                   delivered, removed, hfailLeft, handled, result, ackCalls,
                   nackCalls>>

\* the broker pushes the head of the queue to the consumer, within the
\* prefetch window, once Consume has registered the consumer
BrokerDeliver ==
    /\ UNCHANGED <<pvars, tvars, evars, cancelAt, cspans>>
    /\ cpc \notin {"start"}
    /\ ~cchClosed
    /\ queue # <<>>
    /\ Cardinality(unacked) < EffectivePrefetch(Prefetch)
    /\ Len(delivered) < MaxTag
    /\ LET t == Len(delivered) + 1 IN
        /\ delivered' = Append(delivered, Head(queue))
        /\ msgs' = Append(msgs, t)
        /\ unacked' = unacked \cup {t}
    /\ queue' = Tail(queue)
    /\ UNCHANGED <<cpc, cret, cur, herr, ctxDone, cchClosed, removed,
                   hfailLeft, handled, result, ackCalls, nackCalls>>

\* c.ch is closed (Consumer.Close, line 269, or a broker-side teardown): the
\* broker requeues everything outstanding; the library closes msgs, and the
\* deliveries still buffered are dropped, except possibly the one at the head
\* (the library's buffer goroutine may hand it over before it sees the close)
BrokerChannelClosed ==
    /\ UNCHANGED <<pvars, tvars, evars, cancelAt, cspans>>
    /\ ~cchClosed
    /\ cchClosed' = TRUE
    /\ queue' = TagsToMsgs(unacked) \o queue
    /\ unacked' = {}
    /\ \E k \in 0..Min(1, Len(msgs)) : msgs' = SubSeq(msgs, 1, k)
    /\ UNCHANGED <<cpc, cret, cur, herr, ctxDone, delivered, removed,
                   hfailLeft, handled, result, ackCalls, nackCalls>>

(***************************************************************************)
(* Consumer.Handle, lines 272-320.                                         *)
(***************************************************************************)
\* line 273-276: c.ch.Consume; it fails on a closed channel
Handle_Consume ==
    /\ UNCHANGED <<pvars, tvars, evars, cancelAt, cspans>>
    /\ cpc = "start"
    /\ IF cchClosed
       THEN cpc' = "done" /\ cret' = "consumeErr"
       ELSE cpc' = "select" /\ cret' = cret
    /\ UNCHANGED <<cur, herr, ctxDone, cchClosed, msgs, queue, unacked,
                   delivered, removed, hfailLeft, handled, result, ackCalls,
                   nackCalls>>

\* line 306: defer span.End() stands inside the for loop of Handle, and Go
\* runs a function's deferred calls when the function returns: every span
\* started by this invocation is ended at its return, none before
DeferredSpanEnds(started) == started

\* (mutant) the select without its case <-ctx.Done()
CtxDoneReady_Never(done) == FALSE

\* line 283: the case <-ctx.Done() can be chosen once the context is cancelled
CtxDoneReady(done) == done

\* line 283-284: case <-ctx.Done(): return ctx.Err()
Handle_CtxDone ==
    /\ UNCHANGED <<pvars, tvars, evars, cancelAt, consumeSpansStarted>>
    /\ cpc = "select"
    /\ CtxDoneReady(ctxDone)
    /\ cpc' = "done"
    /\ cret' = "ctxErr"
    /\ consumeSpansEnded' = DeferredSpanEnds(consumeSpansStarted)
    /\ UNCHANGED <<cur, herr, ctxDone, cchClosed, msgs, queue, unacked,
                   delivered, removed, hfailLeft, handled, result, ackCalls,
                   nackCalls>>

\* (mutant) line 287 continuing the loop instead of returning
AfterMsgsClosed_Continue == "select"

\* line 287: return errors.New("consumer channel closed")
AfterMsgsClosed == "done"

\* line 285-288: case m, ok := <-msgs with ok false
Handle_MsgsClosed ==
    /\ UNCHANGED <<pvars, tvars, evars, cancelAt, consumeSpansStarted>>
    /\ cpc = "select"
    /\ msgs = <<>>
    /\ cchClosed
    /\ cpc' = AfterMsgsClosed
    /\ cret' = "chanClosedErr"
    /\ consumeSpansEnded' = DeferredSpanEnds(consumeSpansStarted)
    /\ UNCHANGED <<cur, herr, ctxDone, cchClosed, msgs, queue, unacked,
                   delivered, removed, hfailLeft, handled, result, ackCalls,
                   nackCalls>>

\* (mutant) the newest buffered delivery taken instead of the oldest
ChanReceive_Newest(q) ==
    [m |-> q[Len(q)], rest |-> SubSeq(q, 1, Len(q) - 1)]

\* line 285: m := <-msgs: a Go channel hands out what it buffers first in,
\* first out
ChanReceive(q) == [m |-> Head(q), rest |-> Tail(q)]

\* line 285, 290-310: a delivery is received, its consume span is started
\* (line 298) and handler(m.Body) is entered
Handle_Receive ==
    /\ UNCHANGED <<pvars, tvars, evars, cancelAt, consumeSpansEnded>>
    /\ consumeSpansStarted' = consumeSpansStarted + 1
    /\ cpc = "select"
    /\ msgs # <<>>
    /\ cur' = ChanReceive(msgs).m
    /\ msgs' = ChanReceive(msgs).rest
    /\ handled' = Append(handled, ChanReceive(msgs).m)
    /\ cpc' = "handler"
    /\ UNCHANGED <<cret, herr, ctxDone, cchClosed, queue, unacked, delivered,
                   removed, hfailLeft, result, ackCalls, nackCalls>>

\* (mutant) line 317 left out: no Ack after a nil return
AfterHandler_NoAck(failed) == IF failed THEN "nack" ELSE "select"

\* (mutant) the two branches of line 310 exchanged
AfterHandler_Swapped(failed) == IF failed THEN "ack" ELSE "nack"

\* where Handle goes when handler(m.Body) has returned (line 310)
AfterHandler(failed) == IF failed THEN "nack" ELSE "ack"

\* line 310: handler(m.Body) returns nil or an error
Handle_HandlerReturns ==
    /\ UNCHANGED <<pvars, tvars, evars, cancelAt, cspans>>
    /\ cpc = "handler"
    /\ \E failed \in BOOLEAN :
        /\ failed => hfailLeft > 0
        /\ hfailLeft' = IF failed THEN hfailLeft - 1 ELSE hfailLeft
        /\ herr' = failed
        /\ result' = [result EXCEPT ![cur] = IF failed THEN "err" ELSE "ok"]
        /\ cpc' = AfterHandler(failed)
    /\ UNCHANGED <<cret, cur, ctxDone, cchClosed, msgs, queue, unacked,
                   delivered, removed, handled, ackCalls, nackCalls>>

\* (mutant) line 314 without its continue: falls through to m.Ack
AfterNack_FallThrough == "ack"

\* (mutant) line 314 returning the handler's error instead of continuing
AfterNack_Return == "done"

\* where Handle goes after m.Nack (line 314: continue)
AfterNack == "select"

\* (mutant) m.Nack(false, false): the broker discards the message
NackRequeue_False == FALSE

\* the requeue argument of m.Nack(false, true), line 312
NackRequeue == TRUE

\* line 311-314: _ = m.Nack(false, true); continue.  On an open channel the
\* broker puts the message back at its place in the queue; on a closed one
\* the call returns an error that Handle discards.
Handle_Nack ==
    /\ UNCHANGED <<pvars, tvars, evars, cancelAt, cspans>>
    /\ cpc = "nack"
    /\ nackCalls' = [nackCalls EXCEPT ![cur] = @ + 1]
    /\ IF ~cchClosed /\ cur \in unacked
       THEN /\ unacked' = unacked \ {cur}
            /\ IF NackRequeue
               THEN queue' = <<delivered[cur]>> \o queue /\ removed' = removed
               ELSE queue' = queue /\ removed' = removed \cup {delivered[cur]}
       ELSE UNCHANGED <<unacked, queue, removed>>
    /\ cpc' = AfterNack
    /\ UNCHANGED <<cret, cur, herr, ctxDone, cchClosed, msgs, delivered,
                   hfailLeft, handled, result, ackCalls>>

\* line 317: _ = m.Ack(false).  On an open channel the broker removes the
\* message; on a closed one the call returns an error that Handle discards.
Handle_Ack ==
    /\ UNCHANGED <<pvars, tvars, evars, cancelAt, cspans>>
    /\ cpc = "ack"
    /\ ackCalls' = [ackCalls EXCEPT ![cur] = @ + 1]
    /\ IF ~cchClosed /\ cur \in unacked
       THEN /\ unacked' = unacked \ {cur}
            /\ removed' = removed \cup {delivered[cur]}
       ELSE UNCHANGED <<unacked, removed>>
    /\ cpc' = "select"
    /\ UNCHANGED <<cret, cur, herr, ctxDone, cchClosed, msgs, queue,
                   delivered, hfailLeft, handled, result, nackCalls>>

HandleNext ==
    \/ Handle_Consume
    \/ Handle_CtxDone
    \/ Handle_MsgsClosed
    \/ Handle_Receive
    \/ Handle_HandlerReturns
    \/ Handle_Nack
    \/ Handle_Ack

ConsumerNext ==
    \/ EnvCancel
    \/ BrokerDeliver
    \/ BrokerChannelClosed
    \/ HandleNext

(***************************************************************************)
(* Properties of Consumer.Handle.                                          *)
(***************************************************************************)
\* the delivery Handle has taken and not yet acknowledged
InProgress(t) == t = cur /\ cpc \in {"handler", "nack", "ack"}

\* C1: every delivery Handle has passed to the handler and finished with got
\* exactly one call, Ack or Nack, in total (never both, never two, never none);
\* the delivery in progress has none yet, and no other delivery has any.
C1_ExactlyOneAckOrNack ==
    \A t \in Tags :
        IF t \in Range(handled) /\ ~InProgress(t)
        THEN ackCalls[t] + nackCalls[t] = 1
        ELSE ackCalls[t] + nackCalls[t] = 0

\* a nacked delivery, and a later one whose Ack ran on the closed channel
C1_Witness ==
    /\ cpc = "select"
    /\ cchClosed
    /\ \E t1, t2 \in Range(handled) :
        /\ nackCalls[t1] = 1
        /\ ackCalls[t2] = 1
        /\ delivered[t2] \notin removed

\* C2: the handler's result decides the call: a delivery whose handler
\* returned an error is nacked and never acked, one whose handler returned nil
\* is acked and never nacked.
C2_AckFollowsHandlerResult ==
    \A t \in Tags :
        /\ result[t] = "err" =>
             ackCalls[t] = 0 /\ (~InProgress(t) => nackCalls[t] = 1)
        /\ result[t] = "ok" =>
             nackCalls[t] = 0 /\ (~InProgress(t) => ackCalls[t] = 1)
        /\ result[t] = "none" => ackCalls[t] = 0 /\ nackCalls[t] = 0

C2_Witness ==
    \E t1, t2 \in Tags :
        /\ result[t1] = "err" /\ nackCalls[t1] = 1
        /\ result[t2] = "ok" /\ ackCalls[t2] = 1

\* where each message of the queue is
Outstanding == {delivered[t] : t \in unacked}

C3_Safety ==
    \* removed only by an Ack that follows a nil return for that message
    /\ \A m \in removed :
          \E t \in Range(handled) :
              delivered[t] = m /\ result[t] = "ok" /\ ackCalls[t] = 1
    \* nothing is dropped: each message is ready, outstanding or removed
    /\ Msgs = Range(queue) \cup Outstanding \cup removed
    /\ Len(queue) + Cardinality(unacked) + Cardinality(removed) = NMsgs

\* the message of a nacked delivery is handled again or Handle has returned
C3_Redelivered(t) ==
    (result[t] = "err" /\ nackCalls[t] = 1)
        ~> (\/ cpc = "done"
            \/ \E t2 \in Range(handled) : t2 > t /\ delivered[t2] = delivered[t])

\* C3: a message leaves the queue only by the Ack that follows a nil return of
\* its handler; a message whose handler failed is back in the queue and, while
\* Handle keeps running, is passed to the handler again.
C3_NoMessageDropped ==
    /\ []C3_Safety
    /\ \A t \in Tags : C3_Redelivered(t)

\* a message handled twice: first with an error, then removed by an Ack
C3_Witness ==
    \E t1, t2 \in Range(handled) :
        /\ t1 < t2
        /\ delivered[t1] = delivered[t2]
        /\ result[t1] = "err"
        /\ result[t2] = "ok"
        /\ delivered[t2] \in removed

\* C4: Handle returns only on a cancelled context (with the context's error)
\* or on a closed delivery channel (with an error); with neither, it is still
\* in its loop, whatever the number of handler errors so far.
C4_HandlerErrorNeverStopsLoop ==
    /\ (cpc = "done") <=> (cret # "none")
    /\ cret = "ctxErr" => ctxDone
    /\ cret = "chanClosedErr" => cchClosed
    /\ cret = "consumeErr" => cchClosed /\ handled = <<>>
    /\ (~ctxDone /\ ~cchClosed) => cpc # "done"

\* every error the handler may return has been returned, and Handle has taken
\* a further delivery
C4_Witness ==
    /\ hfailLeft = 0
    /\ Len(handled) > MaxHFail
    /\ cpc = "handler"
    /\ ~ctxDone /\ ~cchClosed

\* the deliveries Handle took from msgs after the context was cancelled
TakenAfterCancel ==
    IF ctxDone THEN {handled[i] : i \in (cancelAt + 1)..Len(handled)} ELSE {}

\* C19 (as claimed): once the context is cancelled, no delivery is taken from
\* msgs and acknowledged: a delivery taken after the cancellation gets no Ack
\* and no Nack.
C19_NoAckAfterCancel ==
    \A t \in TakenAfterCancel : ackCalls[t] + nackCalls[t] = 0

Unsettled == {t \in Range(handled) : ackCalls[t] + nackCalls[t] = 0}

\* C22: at most one delivery is handled but not acknowledged, the one in
\* progress; when the handler is entered for a delivery, every delivery
\* handled before has had its Ack or Nack.
C22_OneDeliveryAtATime ==
    /\ Cardinality(Unsettled) <= 1
    /\ Unsettled = {t \in Tags : InProgress(t)}
    /\ \A i \in 1..(Len(handled) - 1) :
          ackCalls[handled[i]] + nackCalls[handled[i]] >= 1

\* the handler runs for the third delivery, the two before are settled
C22_Witness ==
    /\ cpc = "handler"
    /\ Len(handled) = 3
    /\ Unsettled = {cur}
    /\ msgs # <<>>

\* C23: the handler gets the deliveries in the order the broker put them on
\* the delivery channel (the order of their tags), none skipped: the k-th
\* delivery handled is the k-th delivered, and what is buffered follows in
\* order.
C23_HandledInDeliveryOrder ==
    /\ \A i \in 1..Len(handled) : handled[i] = i
    /\ \A i \in 1..Len(msgs) : msgs[i] = Len(handled) + i

\* two deliveries have been handled and two redeliveries are buffered
C23_Witness ==
    /\ Len(handled) >= 2
    /\ Len(msgs) = 2
    /\ cpc = "select"

\* C31: the consume span of a delivery is ended when the handling of that
\* delivery finishes, so at most one consume span is started and not ended,
\* and none is while Handle waits in its select for the next delivery.
C31_AtMostOneOpenConsumeSpan ==
    /\ consumeSpansStarted - consumeSpansEnded <= 1
    /\ cpc = "select" => consumeSpansEnded = consumeSpansStarted

(***************************************************************************)
(* NewPublisher, lines 66-87: the state after construction.  conn.Channel   *)
(* and ch.Qos have succeeded on the connection given, and the watcher       *)
(* goroutine has been started.  maxFail is the environment's failCap.       *)
(***************************************************************************)
\* no getChannel has run in the call
NoGetChannel ==
    [called |-> FALSE, closed |-> FALSE, ch |-> Nil, err |-> "nil", out |-> Nil]

\* a Publisher holding connection 1 (open), the channel h (Nil: none opened)
\* and the closed flag isClosed, with its watcher goroutine started
PublisherState(maxFail, h, isClosed) ==
    /\ conn = 1
    /\ ch = h
    /\ closed = isClosed
    /\ muW = "none"
    /\ installed = h
    /\ connSt = [c \in ConnIds |-> IF c = 1 THEN "open" ELSE "none"]
    /\ chSt = [c \in ConnIds |-> IF c = h THEN "open" ELSE "none"]
    /\ nDialed = 1
    /\ failCap = maxFail
    /\ lossLeft = MaxLoss
    /\ wpc = "w_top"
    /\ wconn = Nil
    /\ backoff = InitialBackoff
    /\ rconn = Nil
    /\ rch = Nil
    /\ fails = 0
    /\ slept = 0
    /\ pc = [p \in Procs |-> "idle"]
    /\ call = [p \in Procs |-> "none"]
    /\ lch = [p \in Procs |-> Nil]
    /\ pret = [p \in Procs |-> "none"]
    /\ sends = [p \in Procs |-> 0]
    /\ gcWouldFail = [p \in Procs |-> FALSE]
    /\ gcCall = [p \in Procs |-> NoGetChannel]
    /\ spanStarted = [p \in Procs |-> 0]
    /\ spanEnded = [p \in Procs |-> 0]
    /\ afterClose = [p \in Procs |-> FALSE]
    /\ closeCalls = 0
    /\ closeReturned = FALSE
    /\ chCloseCalls = [c \in ConnIds |-> 0]
    /\ dialsAfterClose = 0

\* lines 67-86: conn.Channel and ch.Qos have succeeded, closed is false
NewPublisher(maxFail) == PublisherState(maxFail, 1, FALSE)

(***************************************************************************)
(* p.mu, a sync.RWMutex.  A section under the read lock only reads the     *)
(* fields the lock guards, so RLock, the reads and RUnlock are one step,   *)
(* taken while no goroutine holds the write lock.  The write lock is taken *)
(* in a step of its own and held up to the step that unlocks.  (A blocked  *)
(* Lock holds back later RLock calls, which makes the lock starvation      *)
(* free; the fair specification states that as strong fairness.)          *)
(***************************************************************************)
CanRLock == muW = "none"
CanLock == muW = "none"

(***************************************************************************)
(* amqp: closing a connection closes the channels opened on it and closes  *)
(* the Go channels registered with NotifyClose.                            *)
(***************************************************************************)
ConnClose(st, c) == [st EXCEPT ![c] = "closed"]
ChanCloseWithConn(st, c) == [st EXCEPT ![c] = IF @ = "open" THEN "closed" ELSE @]

\* the broker drops a connection, or its owner closes it
EnvConnLost(c) ==
    /\ lossLeft > 0
    /\ connSt[c] = "open"
    /\ connSt' = ConnClose(connSt, c)
    /\ chSt' = ChanCloseWithConn(chSt, c)
    /\ lossLeft' = lossLeft - 1
    /\ UNCHANGED <<nDialed, failCap>>
    /\ UNCHANGED <<pstruct, pwatch, pcall, pclose, cvars, tvars, evars>>

(***************************************************************************)
(* watchConnection, lines 90-125.                                          *)
(***************************************************************************)
\* lines 92-103: under the read lock, return if closed, else read p.conn;
\* if it is nil, sleep a second and start over
Watch_Top ==
    /\ wpc = "w_top"
    /\ CanRLock
    /\ IF closed
       THEN wpc' = "w_done" /\ wconn' = wconn
       ELSE /\ wconn' = conn
            /\ wpc' = IF conn = Nil THEN "w_top" ELSE "w_wait"
    /\ UNCHANGED <<backoff, rconn, rch, fails, slept>>
    /\ UNCHANGED <<pstruct, penv, pcall, pclose, cvars, tvars, evars>>

\* lines 106-107: amqpErr := <-conn.NotifyClose(...): received once the
\* connection is closed (at once if it was closed before the registration)
Watch_Notified ==
    /\ wpc = "w_wait"
    /\ connSt[wconn] = "closed"
    /\ wpc' = "w_check"
    /\ UNCHANGED <<wconn, backoff, rconn, rch, fails, slept>>
    /\ UNCHANGED <<pstruct, penv, pcall, pclose, cvars, tvars, evars>>

\* lines 109-123 and 129-130: under the read lock, return if closed; else
\* enter reconnect, with backoff := time.Second
Watch_Check ==
    /\ wpc = "w_check"
    /\ CanRLock
    /\ IF closed
       THEN /\ wpc' = "w_done"
            /\ UNCHANGED <<backoff, fails, slept>>
       ELSE /\ wpc' = "r_top"
            /\ backoff' = InitialBackoff
            /\ fails' = 0
            /\ slept' = 0
    /\ UNCHANGED <<wconn, rconn, rch>>
    /\ UNCHANGED <<pstruct, penv, pcall, pclose, cvars, tvars, evars>>

(***************************************************************************)
(* reconnect, lines 128-176.                                               *)
(***************************************************************************)
\* (mutant) the loop without its check of p.closed
AfterReconnectCheck_NoCheck(isClosed) == "r_dial"

\* lines 134-137: if p.closed, return (to watchConnection's loop); else dial
AfterReconnectCheck(isClosed) == IF isClosed THEN "w_top" ELSE "r_dial"

\* lines 133-138: under the read lock, return to watchConnection's loop if
\* closed
Reconnect_Top ==
    /\ wpc = "r_top"
    /\ CanRLock
    /\ wpc' = AfterReconnectCheck(closed)
    /\ UNCHANGED <<wconn, backoff, rconn, rch, fails, slept>>
    /\ UNCHANGED <<pstruct, penv, pcall, pclose, cvars, tvars, evars>>

\* an attempt may fail while fewer than failCap attempts of this invocation
\* have failed
MayFail == fails < failCap

\* the id of a connection that is closed and that only reconnect's locals
\* refer to is free again for the next connection dialed
ReleaseId(st, n) == IF st[n] = "closed" THEN n - 1 ELSE n

\* lines 142-148: conn, err := p.dialFn()
Reconnect_Dial ==
    /\ wpc = "r_dial"
    /\ \/ /\ MayFail
          /\ wpc' = "r_sleep"
          /\ UNCHANGED <<rconn, connSt, nDialed>>
       \/ /\ nDialed < MaxConn
          /\ nDialed' = nDialed + 1
          /\ rconn' = nDialed + 1
          /\ connSt' = [connSt EXCEPT ![nDialed + 1] = "open"]
          /\ wpc' = "r_chan"
    /\ dialsAfterClose' = IF closeReturned THEN dialsAfterClose + 1
                                            ELSE dialsAfterClose
    /\ UNCHANGED <<wconn, backoff, rch, fails, slept, chSt, failCap, lossLeft>>
    /\ UNCHANGED <<closeCalls, closeReturned, chCloseCalls>>
    /\ UNCHANGED <<pstruct, pcall, cvars, tvars, evars>>

\* (mutant) line 153 left out: the connection stays open when conn.Channel fails
ChannelErrCleanup_NoClose(st, c) == st

\* line 153: conn.Close()
ChannelErrCleanup(st, c) == ConnClose(st, c)

\* lines 150-157: ch, err := conn.Channel(); on error conn.Close().  The call
\* fails on a closed connection and may fail on an open one.
Reconnect_Channel ==
    /\ wpc = "r_chan"
    /\ \/ /\ connSt[rconn] = "open"
          /\ rch' = rconn
          /\ chSt' = [chSt EXCEPT ![rconn] = "open"]
          /\ wpc' = "r_qos"
          /\ UNCHANGED <<connSt, nDialed>>
       \/ /\ connSt[rconn] = "closed" \/ MayFail
          /\ connSt' = ChannelErrCleanup(connSt, rconn)
          /\ nDialed' = ReleaseId(connSt', nDialed)
          /\ wpc' = "r_sleep"
          /\ UNCHANGED <<rch, chSt>>
    /\ UNCHANGED <<wconn, backoff, rconn, fails, slept, failCap, lossLeft>>
    /\ UNCHANGED <<pstruct, pcall, pclose, cvars, tvars, evars>>

\* (mutant) line 162 left out: the connection stays open when ch.Qos fails
QosErrCleanup_NoClose(st, c) == st

\* line 162: conn.Close()
QosErrCleanup(st, c) == ConnClose(st, c)

\* lines 159-166: ch.Qos(0, 0, false); on error ch.Close() and conn.Close().
\* The call fails on a closed channel and may fail on an open one.
Reconnect_Qos ==
    /\ wpc = "r_qos"
    /\ \/ /\ chSt[rch] = "open"
          /\ wpc' = "r_lock"
          /\ UNCHANGED <<connSt, chSt, nDialed>>
       \/ /\ chSt[rch] = "closed" \/ MayFail
          /\ chSt' = [chSt EXCEPT ![rch] = "closed"]
          /\ connSt' = QosErrCleanup(connSt, rconn)
          /\ nDialed' = ReleaseId(connSt', nDialed)
          /\ wpc' = "r_sleep"
    /\ UNCHANGED <<wconn, backoff, rconn, rch, fails, slept, failCap, lossLeft>>
    /\ UNCHANGED <<pstruct, pcall, pclose, cvars, tvars, evars>>

\* (mutant) the doubling without its cap
NextBackoff_NoCap(b) == b * 2

\* lines 146, 155, 164: backoff = min(backoff*2, maxBackoff)
NextBackoff(b) == Min(b * 2, MaxBackoff)

\* (mutant) reconnect giving up after three failed attempts
AfterSleep_GiveUp(n) == IF n >= 3 THEN "w_top" ELSE "r_top"

\* lines 147, 156, 165: continue, however many attempts have failed
AfterSleep(n) == "r_top"

\* lines 145-147, 154-156, 163-165: time.Sleep(backoff); the doubling; continue
Reconnect_Sleep ==
    /\ wpc = "r_sleep"
    /\ slept' = slept + backoff
    /\ fails' = fails + 1
    /\ backoff' = NextBackoff(backoff)
    /\ wpc' = AfterSleep(fails + 1)
    /\ UNCHANGED <<wconn, rconn, rch>>
    /\ UNCHANGED <<pstruct, penv, pcall, pclose, cvars, tvars, evars>>

\* (mutant) the swap without p.mu.Lock()
Reconnect_LockHolder_None == "none"

\* line 168: p.mu.Lock(): the holder of the write lock afterwards
Reconnect_LockHolder == Watcher

\* line 168: p.mu.Lock()
Reconnect_Lock ==
    /\ wpc = "r_lock"
    /\ CanLock
    /\ muW' = Reconnect_LockHolder
    /\ wpc' = "r_swap"
    /\ UNCHANGED <<conn, ch, closed, installed, wconn, backoff, rconn, rch,
                   fails, slept>>
    /\ UNCHANGED <<penv, pcall, pclose, cvars, tvars, evars>>

\* (mutant) the swap without its assignment to p.conn
SwapConn_Keep(old, new) == old

\* line 169: p.conn = conn
SwapConn(old, new) == new

\* (mutant) the swap without its assignment to p.ch
SwapCh_Keep(old, new) == old

\* line 170: p.ch = ch
SwapCh(old, new) == new

\* (mutant) reconnect returning without p.mu.Unlock()
Reconnect_Unlock_Missing == Watcher

\* line 171: p.mu.Unlock(): the holder of the write lock afterwards
Reconnect_Unlock == "none"

\* line 169: p.conn = conn, under the write lock
Reconnect_SwapConn ==
    /\ wpc = "r_swap"
    /\ conn' = SwapConn(conn, rconn)
    /\ wpc' = "r_swap_ch"
    /\ UNCHANGED <<ch, closed, muW, installed, wconn, backoff, rconn, rch,
                   fails, slept>>
    /\ UNCHANGED <<penv, pcall, pclose, cvars, tvars, evars>>

\* (mutant) the watcher goroutine ending after its first reconnect
AfterReconnect_Return == "w_done"

\* lines 123-124, 174: reconnect returns into the loop of watchConnection
AfterReconnect == "w_top"

\* (mutant) the swap reopening the Publisher: p.closed = false
ClosedAfterSwap_Reset(isClosed) == FALSE

\* lines 168-171: the swap assigns p.conn and p.ch and nothing else
ClosedAfterSwap(isClosed) == isClosed

\* lines 170-174: p.ch = ch; unlock; return to the watcher's loop
Reconnect_Swap ==
    /\ wpc = "r_swap_ch"
    /\ ch' = SwapCh(ch, rch)
    /\ closed' = ClosedAfterSwap(closed)
    /\ installed' = rch
    /\ muW' = Reconnect_Unlock
    /\ wpc' = AfterReconnect
    /\ UNCHANGED <<conn, wconn, backoff, rconn, rch, fails, slept>>
    /\ UNCHANGED <<penv, pcall, pclose, cvars, tvars, evars>>

WatcherNext ==
    \/ Watch_Top
    \/ Watch_Notified
    \/ Watch_Check
    \/ Reconnect_Top
    \/ Reconnect_Dial
    \/ Reconnect_Channel
    \/ Reconnect_Qos
    \/ Reconnect_Sleep
    \/ Reconnect_Lock
    \/ Reconnect_SwapConn
    \/ Reconnect_Swap

(***************************************************************************)
(* getChannel, lines 179-190.                                              *)
(***************************************************************************)
\* (mutant) getChannel testing p.ch before p.closed
GetChannelResult_NilFirst(isClosed, c) ==
    IF c = Nil THEN [err |-> "unavailable", ch |-> Nil]
    ELSE IF isClosed THEN [err |-> "closed", ch |-> Nil]
    ELSE [err |-> "nil", ch |-> c]

\* (mutant) getChannel without the check of p.closed
GetChannelResult_NoClosedCheck(isClosed, c) ==
    IF c = Nil THEN [err |-> "unavailable", ch |-> Nil]
    ELSE [err |-> "nil", ch |-> c]

\* lines 183-189
GetChannelResult(isClosed, c) ==
    IF isClosed THEN [err |-> "closed", ch |-> Nil]
    ELSE IF c = Nil THEN [err |-> "unavailable", ch |-> Nil]
    ELSE [err |-> "nil", ch |-> c]

(***************************************************************************)
(* PublishJSON, lines 204-249.                                             *)
(***************************************************************************)
\* (mutant) PublishJSON going on to send although getChannel failed
AfterGetChannel_IgnoreErr(e) == "send"

\* lines 236-239: return the wrapped error if getChannel failed
AfterGetChannel(e) == IF e # "nil" THEN "idle" ELSE "send"

\* (mutant) the span started before the body is marshalled
SpanStartsBeforeMarshal_Yes == TRUE

\* lines 205-212: sonic.Marshal comes first; tracer.Start follows at line 212
SpanStartsBeforeMarshal == FALSE

\* (mutant) span.End() called on the success path only
DeferredSpanEnd_SuccessOnly(exit) == IF exit = "nil" THEN 1 ELSE 0

\* line 219: defer span.End(): invocations of End when PublishJSON returns
\* with result exit, the span being started
DeferredSpanEnd(exit) == 1

\* lines 205-208: sonic.Marshal fails and PublishJSON returns its error
PublishJSON_MarshalErr(p) ==
    /\ pc[p] = "idle"
    /\ call' = [call EXCEPT ![p] = "PublishJSON"]
    /\ pret' = [pret EXCEPT ![p] = "marshalErr"]
    /\ sends' = [sends EXCEPT ![p] = 0]
    /\ gcWouldFail' = [gcWouldFail EXCEPT ![p] = FALSE]
    /\ gcCall' = [gcCall EXCEPT ![p] = NoGetChannel]
    /\ spanStarted' = [spanStarted EXCEPT ![p] =
                         IF SpanStartsBeforeMarshal THEN 1 ELSE 0]
    /\ spanEnded' = [spanEnded EXCEPT ![p] = 0]
    /\ afterClose' = [afterClose EXCEPT ![p] = closeReturned]
    /\ UNCHANGED <<pc, lch>>
    /\ UNCHANGED <<pstruct, penv, pwatch, pclose, cvars, tvars, evars>>

\* lines 205-239: the body is marshalled, the span started, the envelope
\* built (all local to the call), then getChannel runs under the read lock
\* and PublishJSON returns the wrapped error if it failed
PublishJSON_GetChannel(p) ==
    /\ pc[p] = "idle"
    /\ CanRLock
    /\ call' = [call EXCEPT ![p] = "PublishJSON"]
    /\ sends' = [sends EXCEPT ![p] = 0]
    /\ afterClose' = [afterClose EXCEPT ![p] = closeReturned]
    /\ gcWouldFail' = [gcWouldFail EXCEPT ![p] = closed \/ ch = Nil]
    /\ LET r == GetChannelResult(closed, ch) IN
        /\ gcCall' = [gcCall EXCEPT ![p] =
                        [called |-> TRUE, closed |-> closed, ch |-> ch,
                         err |-> r.err, out |-> r.ch]]
        /\ pc' = [pc EXCEPT ![p] = AfterGetChannel(r.err)]
        /\ lch' = [lch EXCEPT ![p] =
                     IF AfterGetChannel(r.err) = "idle" THEN Nil ELSE r.ch]
        /\ pret' = [pret EXCEPT ![p] =
                      IF AfterGetChannel(r.err) = "idle"
                      THEN "getChannelErr" ELSE "pending"]
        /\ spanStarted' = [spanStarted EXCEPT ![p] = 1]
        /\ spanEnded' = [spanEnded EXCEPT ![p] =
                           IF AfterGetChannel(r.err) = "idle"
                           THEN DeferredSpanEnd("getChannelErr") ELSE 0]
    /\ UNCHANGED <<pstruct, penv, pwatch, pclose, cvars, tvars, evars>>

\* (mutant) PublishJSON sending again when the send failed
AfterSend_Retry(ok) == IF ok THEN "idle" ELSE "send"

\* lines 242-248: PublishJSON returns after the send, whatever its result
AfterSend(ok) == "idle"

\* lines 241-248: ch.PublishWithContext; its error, if any, is returned.  The
\* call fails on a nil or closed channel and may fail on an open one.
PublishJSON_Send(p) ==
    /\ pc[p] = "send"
    /\ sends' = [sends EXCEPT ![p] = @ + 1]
    /\ \E ok \in BOOLEAN :
        /\ ok => (lch[p] # Nil /\ chSt[lch[p]] = "open")
        /\ pret' = [pret EXCEPT ![p] = IF ok THEN "nil" ELSE "sendErr"]
        /\ pc' = [pc EXCEPT ![p] = AfterSend(ok)]
        /\ lch' = [lch EXCEPT ![p] = IF AfterSend(ok) = "idle" THEN Nil ELSE @]
        /\ spanEnded' = [spanEnded EXCEPT ![p] =
                           IF AfterSend(ok) = "idle"
                           THEN @ + DeferredSpanEnd(IF ok THEN "nil" ELSE "sendErr")
                           ELSE @]
    /\ UNCHANGED <<call, gcWouldFail, gcCall, spanStarted, afterClose>>
    /\ UNCHANGED <<pstruct, penv, pwatch, pclose, cvars, tvars, evars>>

(***************************************************************************)
(* Publisher.Close, lines 192-202.                                         *)
(***************************************************************************)
\* line 193: Close is called and p.mu.Lock() acquired
Close_Lock(p) ==
    /\ pc[p] = "idle"
    /\ closeCalls < MaxClose
    /\ CanLock
    /\ muW' = p
    /\ closeCalls' = closeCalls + 1
    /\ call' = [call EXCEPT ![p] = "Close"]
    /\ pc' = [pc EXCEPT ![p] = "close_body"]
    /\ pret' = [pret EXCEPT ![p] = "pending"]
    /\ sends' = [sends EXCEPT ![p] = 0]
    /\ gcWouldFail' = [gcWouldFail EXCEPT ![p] = FALSE]
    /\ gcCall' = [gcCall EXCEPT ![p] = NoGetChannel]
    /\ spanStarted' = [spanStarted EXCEPT ![p] = 0]
    /\ spanEnded' = [spanEnded EXCEPT ![p] = 0]
    /\ afterClose' = [afterClose EXCEPT ![p] = closeReturned]
    /\ UNCHANGED <<conn, ch, closed, installed, lch, closeReturned,
                   chCloseCalls, dialsAfterClose>>
    /\ UNCHANGED <<penv, pwatch, cvars, tvars, evars>>

\* whether Close closes the channel (line 198)
ClosesChannel(isClosed, c) == c # Nil

\* (mutant) Close closing the connection as well: p.conn.Close()
ConnAfterClose_Closed(st, c) == ConnClose(st, c)

\* lines 192-202: Close makes no call on p.conn
ConnAfterClose(st, c) == st

\* (mutant) Close dropping the channel it has closed: p.ch = nil
ChAfterClose_Nil(c) == Nil

\* lines 192-202: Close makes no assignment to p.ch
ChAfterClose(c) == c

\* lines 196-201: p.closed = true; p.ch.Close() if p.ch != nil, whose error
\* (if any) is returned; the deferred Unlock; return
Close_Body(p) ==
    /\ pc[p] = "close_body"
    /\ closed' = TRUE
    /\ IF ClosesChannel(closed, ch)
       THEN /\ chCloseCalls' = [chCloseCalls EXCEPT ![ch] = @ + 1]
            /\ chSt' = [chSt EXCEPT ![ch] = "closed"]
            /\ \E e \in {"nil", "closeErr"} : pret' = [pret EXCEPT ![p] = e]
       ELSE /\ UNCHANGED <<chCloseCalls, chSt>>
            /\ pret' = [pret EXCEPT ![p] = "nil"]
    /\ ch' = ChAfterClose(ch)
    /\ connSt' = ConnAfterClose(connSt, conn)
    /\ muW' = "none"
    /\ closeReturned' = TRUE
    /\ pc' = [pc EXCEPT ![p] = "idle"]
    /\ UNCHANGED <<conn, installed, nDialed, failCap,
                   lossLeft, call, lch, sends, gcWouldFail, gcCall, spanStarted,
                   spanEnded, afterClose, closeCalls,
                   dialsAfterClose>>
    /\ UNCHANGED <<pwatch, cvars, tvars, evars>>

\* a caller goes on with the call it is in
CallerContinue(p) ==
    \/ PublishJSON_Send(p)
    \/ Close_Body(p)

CallerNext(p) ==
    \/ p \in Publishers /\ PublishJSON_MarshalErr(p)
    \/ p \in Publishers /\ PublishJSON_GetChannel(p)
    \/ Close_Lock(p)
    \/ CallerContinue(p)

Next ==
    \/ \E c \in ConnIds : EnvConnLost(c)
    \/ WatcherNext
    \/ \E p \in Procs : CallerNext(p)

(***************************************************************************)
(* Properties of the Publisher.                                            *)
(***************************************************************************)
\* C5: fail-closed publish: a PublishJSON call whose getChannel found the
\* Publisher closed or without a channel has returned the getChannel error,
\* holds no channel and has made no send.
C5_FailClosedPublish ==
    \A p \in Procs :
        gcWouldFail[p] =>
            /\ pc[p] = "idle"
            /\ pret[p] = "getChannelErr"
            /\ lch[p] = Nil
            /\ sends[p] = 0

C5_Witness ==
    \E p \in Procs :
        /\ call[p] = "PublishJSON"
        /\ gcWouldFail[p]
        /\ closed
        /\ pret[p] = "getChannelErr"

\* C6: a PublishJSON call that started after a Close() had returned never
\* reaches the send, and returns an error, whatever the reconnect loop
\* installs afterwards.
C6_PublishAfterCloseFails ==
    \A p \in Procs :
        (call[p] = "PublishJSON" /\ afterClose[p]) =>
            /\ pc[p] = "idle"
            /\ sends[p] = 0
            /\ pret[p] \in {"marshalErr", "getChannelErr"}

\* the call failed although a reconnect that completed after Close() has
\* installed an open channel
C6_Witness ==
    \E p \in Procs :
        /\ call[p] = "PublishJSON"
        /\ afterClose[p]
        /\ pret[p] = "getChannelErr"
        /\ ch # Nil
        /\ chSt[ch] = "open"

\* C7: under fair scheduling, when the held connection is lost and the
\* Publisher is not closed, the Publisher is eventually closed or getChannel
\* returns a channel opened on a connection dialed later.
C7_ReconnectEventuallySucceeds ==
    \A c \in ConnIds :
        (conn = c /\ connSt[c] = "closed" /\ ~closed)
            ~> (\/ closed
                \/ /\ conn > c
                   /\ connSt[conn] = "open"
                   /\ GetChannelResult(closed, ch) = [err |-> "nil", ch |-> conn])

\* a reconnect that succeeded after failed attempts
C7_Witness ==
    /\ ~closed
    /\ fails >= 2
    /\ wpc = "w_wait"
    /\ conn > 1
    /\ ch = conn
    /\ chSt[ch] = "open"

RECURSIVE Pow2(_)
Pow2(n) == IF n = 0 THEN 1 ELSE 2 * Pow2(n - 1)

\* the sum of min(2^i, 30) for i = 0..n-1
RECURSIVE SumBackoff(_)
SumBackoff(n) ==
    IF n = 0 THEN 0 ELSE SumBackoff(n - 1) + Min(Pow2(n - 1), MaxBackoff)

\* C8: in an invocation of reconnect with k failed attempts so far the delay
\* is min(2^k, 30) seconds (1 at the start of every invocation, never above 30
\* nor below 1), which is what the next failure sleeps, and the invocation has
\* slept the sum of min(2^i, 30) for i < k.
C8_BackoffSchedule ==
    /\ backoff = Min(Pow2(fails), MaxBackoff)
    /\ backoff >= InitialBackoff
    /\ backoff <= MaxBackoff
    /\ slept = SumBackoff(fails)

\* a second invocation (the first one installed connection 2) that has
\* started over and failed six times: it slept 1, 2, 4, 8, 16 and 30 seconds
C8_Witness ==
    /\ conn = 2
    /\ wpc = "r_top"
    /\ fails = 6
    /\ backoff = 30
    /\ slept = 61

\* C9 (as claimed): however often Publisher.Close is called, it invokes the
\* Close of a channel at most once.
C9_ChannelClosedAtMostOnce ==
    \A c \in ConnIds : chCloseCalls[c] <= 1

\* C10 (as claimed): once Close() has returned (and p.mu is free), the watcher
\* goroutine has terminated or can take its next step without any further
\* event.
C10_CloseCancelsWatcher ==
    (closeReturned /\ muW = "none") => (wpc = "w_done" \/ ENABLED WatcherNext)

\* C11 (as claimed): once Close() has returned, the reconnect loop starts no
\* invocation of DialFunc.
C11_NoDialAfterClose == dialsAfterClose = 0

\* C11 (amended): at most one invocation of DialFunc starts after Close() has
\* returned, that of the iteration whose check of p.closed came before
\* Close() set it; after that one the loop is never again about to dial.
C11_AtMostOneDialAfterClose ==
    /\ dialsAfterClose <= 1
    /\ dialsAfterClose = 1 => wpc # "r_dial"

\* the attempt in flight when Close() returned has dialed and failed, and
\* the loop has ended at its next check
C11_Witness ==
    /\ dialsAfterClose = 1
    /\ fails > 0
    /\ conn = 1
    /\ wpc = "w_done"

\* C12 (as claimed): every send PublishJSON performs is on a channel whose
\* connection is open at that moment (it has not been closed, so it has not
\* delivered its close notification).
C12_NoSendAfterConnClosed ==
    [][\A p \in Procs :
          (pc[p] = "send" /\ pc'[p] # "send") => connSt[lch[p]] = "open"]_vars

\* C13 (as claimed): while a PublishJSON call is between obtaining the channel
\* and its send it holds the read lock, so no goroutine holds the write lock
\* (no swap and no Close is under way) and the channel it obtained is still
\* the Publisher's, which is not closed.
C13_SendUnderReadLock ==
    \A p \in Procs :
        pc[p] = "send" => (muW = "none" /\ lch[p] = ch /\ ~closed)

\* C14 (as claimed): a PublishJSON call whose channel acquisition runs in the
\* gap (the held connection is closed and the swap has not replaced it yet)
\* returns the acquisition error: no call obtains a channel and goes on to
\* the send while the held connection is closed.
C14_UnavailableDuringGap ==
    [][\A p \in Procs :
          (pc[p] = "idle" /\ pc'[p] = "send") => connSt[conn] = "open"]_vars

\* C15 (as claimed): a call that obtained the channel of the last completed
\* swap and sends on it while no later swap and no Close() has begun gets a
\* nil result from its send.
C15_PublishAfterSwapSucceeds ==
    [][\A p \in Procs :
          (/\ pc[p] = "send" /\ pc'[p] = "idle"
           /\ installed # 1 /\ lch[p] = installed
           /\ ~closed /\ muW = "none")
          => pret'[p] = "nil"]_vars

\* C15 (amended): every call whose getChannel succeeds obtains the channel of
\* the last completed swap (that of NewPublisher before the first swap),
\* never an earlier one; its send returns nil only if that channel is still
\* open when the send is made.
C15_CallAfterSwapObtainsNewChannel ==
    [][\A p \in Procs :
          /\ (pc[p] = "idle" /\ pc'[p] = "send") =>
                (lch'[p] = installed /\ lch'[p] = ch /\ ch = conn)
          /\ (pc[p] = "send" /\ pc'[p] = "idle" /\ pret'[p] = "nil") =>
                chSt[lch[p]] = "open"]_vars

\* a call that started after a swap has sent on the new channel with success
C15_Witness ==
    \E p \in Procs :
        /\ call[p] = "PublishJSON"
        /\ pret[p] = "nil"
        /\ sends[p] = 1
        /\ installed = 2
        /\ ch = 2
        /\ ~closed
        /\ wpc = "w_wait"

\* C16: the watcher holds the write lock exactly while it is at the two-field
\* swap, a step it can always take; so whenever no Close() holds the lock, a
\* getChannel call can complete at once, or right after the swap, wherever
\* reconnect is (checking, dialing, opening the channel, setting QoS,
\* sleeping, waiting for the lock).
C16_GetChannelNeverWaitsForReconnect ==
    /\ (muW = Watcher) <=> (wpc \in {"r_swap", "r_swap_ch"})
    /\ wpc = "r_swap" => ENABLED Reconnect_SwapConn
    /\ wpc = "r_swap_ch" => ENABLED Reconnect_Swap
    /\ \A p \in Publishers :
          (pc[p] = "idle" /\ muW \notin Procs) =>
              (wpc \in {"r_swap", "r_swap_ch"}
                 \/ ENABLED PublishJSON_GetChannel(p))

\* reconnect is sleeping after a failed attempt, no lock is held, and a call
\* has come back from getChannel with the old channel
C16_Witness ==
    /\ wpc = "r_sleep"
    /\ muW = "none"
    /\ \E p \in Publishers :
          pc[p] = "send" /\ lch[p] = wconn /\ connSt[wconn] = "closed"

\* the connections that are live: the initial one and those returned by
\* p.dialFn, as long as they have not been closed
OpenConns == {c \in ConnIds : connSt[c] = "open"}

\* C17: at most one connection of the Publisher is live.
C17_AtMostOneLiveConnection == Cardinality(OpenConns) <= 1

\* the connection just dialed is the only live one: the one lost and the
\* candidate of a failed attempt (closed together with its channel after
\* ch.Qos failed) are closed
C17_Witness ==
    /\ wpc = "r_chan"
    /\ fails > 0
    /\ connSt[conn] = "closed"
    /\ chSt[rconn] = "closed"
    /\ OpenConns = {rconn}

\* C18: a PublishJSON call invokes PublishWithContext at most once: not yet
\* while it is before its send, exactly once when it has returned the send's
\* result (nil or the send error, after which it is not in the call any
\* more), and never when it returned before the send.
C18_AtMostOneSendPerCall ==
    \A p \in Procs :
        /\ sends[p] <= 1
        /\ pc[p] = "send" => sends[p] = 0
        /\ pret[p] = "sendErr" => (sends[p] = 1 /\ pc[p] = "idle")
        /\ (call[p] = "PublishJSON" /\ pret[p] = "nil") =>
              (sends[p] = 1 /\ pc[p] = "idle")
        /\ pret[p] \in {"marshalErr", "getChannelErr"} => sends[p] = 0

\* a call has returned the error of its one send, the Publisher being open
C18_Witness ==
    \E p \in Procs :
        /\ call[p] = "PublishJSON"
        /\ pret[p] = "sendErr"
        /\ sends[p] = 1
        /\ pc[p] = "idle"
        /\ ~closed
        /\ chSt[ch] = "open"

\* C25: the getChannel of a call returned an error exactly if it read closed
\* as true or ch as nil: "publisher is closed" whenever closed was true (also
\* with ch nil), "channel is not available" when only ch was nil, both with
\* a nil channel; otherwise it returned the channel it read, with no error.
\* The step in which it runs leaves the Publisher's fields, the lock and the
\* connections and channels as they were.
C25_GetChannelContract ==
    /\ [](\A p \in Procs :
            LET r == gcCall[p] IN
            r.called =>
                /\ (r.err # "nil") <=> (r.closed \/ r.ch = Nil)
                /\ r.closed => r.err = "closed"
                /\ (~r.closed /\ r.ch = Nil) => r.err = "unavailable"
                /\ r.err # "nil" => r.out = Nil
                /\ r.err = "nil" => (r.out = r.ch /\ r.out # Nil))
    /\ [][\A p \in Procs :
            (gcCall'[p].called /\ gcCall'[p] # gcCall[p]) =>
                /\ gcCall'[p].closed = closed
                /\ gcCall'[p].ch = ch
                /\ UNCHANGED <<conn, ch, closed, muW, connSt, chSt>>]_vars

\* getChannel has run on a closed Publisher without a channel
C25_Witness ==
    \E p \in Procs :
        /\ gcCall[p].called
        /\ gcCall[p].closed
        /\ gcCall[p].ch = Nil
        /\ gcCall[p].err = "closed"
        /\ pret[p] = "getChannelErr"

\* C26: in every state in which the watcher does not hold the write lock
\* (the states a reader under the read lock, or Close, can observe), the
\* held channel is the one opened on the held connection.
C26_ConnAndChannelMatch == muW # Watcher => (ch = conn /\ ch # Nil)

\* the second swap is done: connection 3 with its channel
C26_Witness ==
    /\ muW = "none"
    /\ conn = 3
    /\ ch = 3
    /\ wpc = "w_wait"

\* the positions of the watcher goroutine inside reconnect
InReconnect(pos) ==
    pos \in {"r_top", "r_dial", "r_chan", "r_qos", "r_sleep", "r_lock",
             "r_swap", "r_swap_ch"}

\* C27: reconnect is left only back to the watcher's loop, and only from its
\* check with closed set or from the swap of a connection and a channel that
\* this attempt dialed and opened; a failed attempt always leads to the next
\* check, whatever the number of failures, and the watcher ends nowhere in
\* reconnect.
C27_ReconnectRetriesIndefinitely ==
    [][/\ (InReconnect(wpc) /\ ~InReconnect(wpc')) =>
            /\ wpc' = "w_top"
            /\ \/ wpc = "r_top" /\ closed
               \/ /\ wpc = "r_swap_ch"
                  /\ conn' = rconn /\ ch' = rch /\ rch = rconn
                  /\ rconn # wconn
       /\ (wpc = "r_sleep" /\ wpc' # wpc) => wpc' = "r_top"
       /\ (wpc \in {"r_dial", "r_chan", "r_qos"} /\ wpc' # wpc) =>
            wpc' \in {"r_chan", "r_qos", "r_lock", "r_sleep"}]_vars

\* reconnect has succeeded at its seventh attempt
C27_Witness ==
    /\ fails = 6
    /\ wpc = "w_wait"
    /\ ~closed
    /\ conn > 1
    /\ connSt[conn] = "open"

\* C28: while the watcher waits for a close notification it waits on the held
\* connection; on a notification it invokes reconnect (with the initial
\* backoff) if the Publisher is not closed, and ends if it is; and under
\* fair scheduling every loss of the held connection, the one installed by
\* a reconnect included, leads to a reconnect invocation for it unless the
\* Publisher is closed.
C28_EveryLossDetected ==
    /\ [](wpc = "w_wait" => (wconn = conn /\ wconn # Nil))
    /\ [][(wpc = "w_check" /\ wpc' # wpc) =>
             IF closed THEN wpc' = "w_done"
             ELSE wpc' = "r_top" /\ backoff' = InitialBackoff]_vars
    /\ \A c \in ConnIds :
          (conn = c /\ connSt[c] = "closed" /\ ~closed)
              ~> (closed \/ (InReconnect(wpc) /\ wconn = c))

\* reconnect has been invoked for the loss of the connection that an earlier
\* reconnect installed
C28_Witness ==
    /\ wpc = "r_top"
    /\ fails = 0
    /\ wconn = 2
    /\ conn = 2
    /\ connSt[2] = "closed"
    /\ ~closed

\* C29: a PublishJSON call that returned the serialization error has started
\* no span, has run no getChannel, holds no channel and has sent nothing;
\* and the step in which it returns leaves the Publisher's fields, the lock
\* and the connections and channels as they were.
C29_MarshalErrorFirst ==
    /\ [](\A p \in Procs :
            pret[p] = "marshalErr" =>
                /\ call[p] = "PublishJSON" /\ pc[p] = "idle"
                /\ spanStarted[p] = 0 /\ spanEnded[p] = 0
                /\ ~gcCall[p].called /\ lch[p] = Nil
                /\ sends[p] = 0)
    /\ [][\A p \in Procs :
            (pret'[p] = "marshalErr" /\ pret[p] # "marshalErr") =>
                UNCHANGED <<conn, ch, closed, muW, connSt, chSt>>]_vars

\* a call has returned the serialization error on a Publisher that has
\* reconnected and is not closed
C29_Witness ==
    \E p \in Procs :
        /\ pret[p] = "marshalErr"
        /\ spanStarted[p] = 0
        /\ ~closed
        /\ conn = 2

\* C30: a PublishJSON call past its serialization has started one span; the
\* span is not ended while the call is before its send, and is ended exactly
\* once when the call has returned, whether with the getChannel error, the
\* send error or nil.
C30_SpanEndedOncePerExit ==
    \A p \in Procs :
        call[p] = "PublishJSON" =>
            /\ spanStarted[p] <= 1
            /\ spanEnded[p] <= spanStarted[p]
            /\ pc[p] = "send" => (spanStarted[p] = 1 /\ spanEnded[p] = 0)
            /\ pret[p] \in {"getChannelErr", "sendErr", "nil"} =>
                  (pc[p] = "idle" /\ spanStarted[p] = 1 /\ spanEnded[p] = 1)

\* one call has returned the send error with its span ended
C30_Witness ==
    \E p \in Procs :
        /\ call[p] = "PublishJSON"
        /\ pret[p] = "sendErr"
        /\ spanStarted[p] = 1
        /\ spanEnded[p] = 1
        /\ closed

\* C32: once Close() has returned, the held Connection and Channel are never
\* replaced again: a reconnect attempt that had passed its closed check when
\* Close() ran does not install what it has dialed.
C32_NoSwapAfterClose ==
    [][closeReturned => (conn' = conn /\ ch' = ch)]_vars

\* C33: the closed flag is monotonic: only the body of Close() sets it, no
\* step resets it, and every getChannel of a call that started after a
\* Close() had returned fails with "publisher is closed".
C33_ClosedIsMonotonic ==
    /\ [][closed => closed']_vars
    /\ [][(~closed /\ closed') =>
            \E p \in Procs : pc[p] = "close_body" /\ pc'[p] = "idle"]_vars
    /\ [](closeReturned => closed)
    /\ [](\A p \in Procs :
            (afterClose[p] /\ gcCall[p].called) => gcCall[p].err = "closed")

\* a reconnect has installed an open channel after Close() returned, and a
\* getChannel made after that still failed with "publisher is closed"
C33_Witness ==
    \E p \in Procs :
        /\ afterClose[p]
        /\ gcCall[p].called
        /\ gcCall[p].err = "closed"
        /\ gcCall[p].ch # Nil
        /\ chSt[gcCall[p].ch] = "open"
        /\ installed # 1

\* C34: a failed reconnect attempt leaks nothing: when conn.Channel fails the
\* dialed connection is closed, when ch.Qos fails the new channel and the
\* dialed connection are closed, both before the backoff sleep, and neither
\* step changes the held Connection and Channel; so during the sleep no
\* connection or channel other than the held ones is open.
C34_FailedAttemptLeaksNothing ==
    /\ [][(wpc = "r_chan" /\ wpc' = "r_sleep") =>
            /\ connSt'[rconn] = "closed"
            /\ conn' = conn /\ ch' = ch]_vars
    /\ [][(wpc = "r_qos" /\ wpc' = "r_sleep") =>
            /\ chSt'[rch] = "closed"
            /\ connSt'[rconn] = "closed"
            /\ conn' = conn /\ ch' = ch]_vars
    /\ [](wpc = "r_sleep" =>
            \A c \in ConnIds \ {conn} :
                connSt[c] # "open" /\ chSt[c] # "open")

\* the first attempt after the first loss opened a channel and failed in
\* ch.Qos: channel and connection are closed when the sleep begins
C34_Witness ==
    /\ wpc = "r_sleep"
    /\ fails = 0
    /\ installed = 1
    /\ rch # Nil
    /\ rch = rconn
    /\ chSt[rch] = "closed"
    /\ connSt[rconn] = "closed"

\* C35: Close() sets the closed flag and closes the held Channel, and that
\* is all: the Connection is not closed, and the held Connection and Channel
\* references are what they were, and not nil.
C35_CloseChangesOnlyFlagAndChannel ==
    [][\A p \in Procs :
        (pc[p] = "close_body" /\ pc'[p] = "idle") =>
            /\ closed'
            /\ conn # Nil /\ ch # Nil
            /\ conn' = conn /\ ch' = ch
            /\ connSt' = connSt
            /\ chSt' = [chSt EXCEPT ![ch] = "closed"]
            /\ chCloseCalls'[ch] = chCloseCalls[ch] + 1]_vars

\* Close() has returned on a Publisher whose connection is still open: the
\* channel is closed, the connection is not
C35_Witness ==
    /\ closeReturned
    /\ muW = "none"
    /\ installed = 1
    /\ conn = 1 /\ ch = 1
    /\ connSt[conn] = "open"
    /\ chSt[ch] = "closed"

\* C36: the held Connection and Channel of a Publisher made by NewPublisher
\* are never nil, so no getChannel fails with "channel is not available" and
\* the watcher never finds a nil connection to sleep on.
C36_ConnAndChannelNeverNil ==
    /\ conn # Nil
    /\ ch # Nil
    /\ \A p \in Procs : gcCall[p].err # "unavailable"
    /\ GetChannelResult(closed, ch).err \in {"nil", "closed"}
    /\ wpc \notin {"w_top", "w_done"} => wconn # Nil

\* after a Close() and a completed reconnect the watcher waits on the new
\* connection, and a getChannel has failed with "publisher is closed"
C36_Witness ==
    /\ wpc = "w_wait"
    /\ wconn = conn
    /\ installed # 1
    /\ closed
    /\ \E p \in Procs : gcCall[p].called /\ gcCall[p].err = "closed"

(***************************************************************************)
(* The editor plugin: flushAssistantMessage and the event hook,            *)
(* src/unnamed/part_000 lines 605-738.  JavaScript runs one callback at a  *)
(* time, so an action is the code between two awaits.                      *)
(***************************************************************************)
\* texts a message.part.updated event can carry
Texts == {"", " ", "hi"}

\* line 631: text.trim(), on the texts above
Trim(text) == IF text = " " THEN "" ELSE text

\* a Map<string, string> as the sequence of its entries: Map.has, Map.get
\* with the ?? "" of line 630, Map.set, Map.delete and Map.keys
PendingHas(pending, messageID) ==
    \E i \in 1..Len(pending) : pending[i].id = messageID

PendingGet(pending, messageID) ==
    IF PendingHas(pending, messageID)
    THEN LET i == CHOOSE j \in 1..Len(pending) : pending[j].id = messageID
         IN pending[i].text
    ELSE ""

PendingSet(pending, messageID, text) ==
    IF PendingHas(pending, messageID)
    THEN [i \in 1..Len(pending) |->
            IF pending[i].id = messageID
            THEN [id |-> messageID, text |-> text]
            ELSE pending[i]]
    ELSE Append(pending, [id |-> messageID, text |-> text])

PendingDeleteTest(messageID, e) == e.id # messageID

PendingDelete(pending, messageID) ==
    SelectSeq(pending, LAMBDA e : PendingDeleteTest(messageID, e))

PendingKeys(pending) == [i \in 1..Len(pending) |-> pending[i].id]

\* an invocation slot that is not in use
NoTask ==
    [pc |-> "free", reason |-> "none", sessionID |-> 0, messageID |-> 0,
     messageIDs |-> <<>>, inFlight |-> NoSet]

\* no flushAssistantMessage has run
NoFlush ==
    [called |-> FALSE, reason |-> "none", sessionID |-> 0, messageID |-> 0,
     wasStored |-> FALSE, wasInFlight |-> FALSE, stores |-> FALSE]

\* the plugin instance after its construction
PluginInit ==
    /\ assistantStored = [s \in SessionIDs |-> {}]
    /\ assistantInFlight = [s \in SessionIDs |-> NoSet]
    /\ setObjects = [o \in SetObjects |-> {}]
    /\ pendingAssistantText = [s \in SessionIDs |-> <<>>]
    /\ flush = [t \in FlushTasks |-> NoTask]
    /\ lastFlush = NoFlush
    /\ storeCalls = [k \in SessionIDs \X MessageIDs |-> 0]
    /\ backendStored = [k \in SessionIDs \X MessageIDs |-> 0]

\* the Set objects something refers to
UsedSets ==
    {assistantInFlight[s] : s \in SessionIDs}
        \cup {flush[t].inFlight : t \in FlushTasks}

\* new Set(): an object nothing refers to
NewSet ==
    CHOOSE o \in SetObjects :
        /\ o \notin UsedSets
        /\ \A o2 \in SetObjects : o2 < o => o2 \in UsedSets

\* lines 608-615: the Set under key, created and entered when there is none
getOrInitSet(map, key) == IF map[key] # NoSet THEN map[key] ELSE NewSet

\* the members of the Set assistantInFlight holds for a session
InFlightMarks(s) ==
    IF assistantInFlight[s] = NoSet THEN {}
    ELSE setObjects[assistantInFlight[s]]

\* line 621: stored.has(messageID)
AlreadyStored(stored, messageID) == messageID \in stored

\* (mutant) flushAssistantMessage without the test of line 624
InFlightBlocks_Never(inFlight, messageID) == FALSE

\* line 624: inFlight.has(messageID)
InFlightBlocks(inFlight, messageID) == messageID \in inFlight

\* line 673: inFlight.delete(messageID), on the Set the flush refers to
FinallySet(objs, ref, messageID) == [objs EXCEPT ![ref] = @ \ {messageID}]

\* line 674: if (inFlight.size === 0) assistantInFlight.delete(sessionID)
FinallyMap(map, objs, ref, sessionID) ==
    IF objs[ref] = {} THEN [map EXCEPT ![sessionID] = NoSet] ELSE map

\* where an invocation is when its flushAssistantMessage has returned: the
\* loop of flushAllPendingAssistant (lines 683-685) goes on while it has
\* messageIDs left; the hook returns otherwise
AfterFlush(reason, sessionID, rest) ==
    IF reason = "session.idle" /\ rest # <<>>
    THEN [pc |-> "loop", reason |-> reason, sessionID |-> sessionID,
          messageID |-> 0, messageIDs |-> rest, inFlight |-> NoSet]
    ELSE NoTask

\* lines 617-664: flushAssistantMessage up to its return or to the await of
\* storeAcontextMessage, run by invocation t; rest is what the caller's
\* loop has left to flush
flushAssistantMessage(t, reason, sessionID, messageID, rest) ==
    LET stored == assistantStored[sessionID]
        ref == getOrInitSet(assistantInFlight, sessionID)
        inFlight == setObjects[ref]
        pending == pendingAssistantText[sessionID]
        hasTextPart == PendingHas(pending, messageID)
        trimmed == Trim(PendingGet(pending, messageID))
        marked == [setObjects EXCEPT ![ref] = @ \cup {messageID}]
        entered == [assistantInFlight EXCEPT ![sessionID] = ref]
        entry == [called |-> TRUE, reason |-> reason,
                  sessionID |-> sessionID, messageID |-> messageID,
                  wasStored |-> messageID \in stored,
                  wasInFlight |-> messageID \in InFlightMarks(sessionID),
                  stores |-> FALSE]
    IN
    IF AlreadyStored(stored, messageID) \/ InFlightBlocks(inFlight, messageID)
    THEN \* lines 621, 624: return
         /\ flush' = [flush EXCEPT ![t] = AfterFlush(reason, sessionID, rest)]
         /\ lastFlush' = entry
         /\ UNCHANGED <<assistantStored, assistantInFlight, setObjects,
                        pendingAssistantText, storeCalls, backendStored>>
    ELSE IF ~hasTextPart \/ trimmed = ""
    THEN \* lines 633-641 and the finally of lines 672-675: nothing to store
         /\ assistantStored' =
                [assistantStored EXCEPT ![sessionID] = @ \cup {messageID}]
         /\ pendingAssistantText' =
                [pendingAssistantText EXCEPT
                    ![sessionID] = PendingDelete(@, messageID)]
         /\ setObjects' = FinallySet(marked, ref, messageID)
         /\ assistantInFlight' =
                FinallyMap(entered, FinallySet(marked, ref, messageID), ref,
                           sessionID)
         /\ flush' = [flush EXCEPT ![t] = AfterFlush(reason, sessionID, rest)]
         /\ lastFlush' = entry
         /\ UNCHANGED <<storeCalls, backendStored>>
    ELSE \* lines 625, 644-664: mark, build the message, call
         \* storeAcontextMessage and wait for it
         /\ setObjects' = marked
         /\ assistantInFlight' = entered
         /\ storeCalls' =
                [storeCalls EXCEPT ![<<sessionID, messageID>>] = @ + 1]
         /\ flush' = [flush EXCEPT ![t] =
                [pc |-> "await", reason |-> reason, sessionID |-> sessionID,
                 messageID |-> messageID, messageIDs |-> rest,
                 inFlight |-> ref]]
         /\ lastFlush' = [entry EXCEPT !.stores = TRUE]
         /\ UNCHANGED <<assistantStored, pendingAssistantText, backendStored>>

\* the invocation slot a new event takes
FreeTask ==
    CHOOSE t \in FlushTasks :
        /\ flush[t].pc = "free"
        /\ \A t2 \in FlushTasks : t2 < t => flush[t2].pc # "free"

\* lines 692-703: message.updated of an assistant message with
\* time.completed set
Event_MessageCompleted(s, m) ==
    /\ \E t \in FlushTasks : flush[t].pc = "free"
    /\ flushAssistantMessage(FreeTask, "message.completed", s, m, <<>>)
    /\ UNCHANGED <<cvars, pvars, tvars>>

\* lines 706-727: message.part.updated with a text part of an assistant
\* message: the text replaces what is buffered for the message
Event_MessagePartUpdated(s, m) ==
    /\ \E text \in Texts :
        pendingAssistantText' =
            [pendingAssistantText EXCEPT ![s] = PendingSet(@, m, text)]
    /\ UNCHANGED <<assistantStored, assistantInFlight, setObjects, flush,
                   lastFlush, storeCalls, backendStored>>
    /\ UNCHANGED <<cvars, pvars, tvars>>

\* lines 730-733 and 678-684: session.idle: flushAllPendingAssistant takes
\* the keys buffered for the session and flushes the first (with nothing
\* buffered it returns at line 680)
Event_SessionIdle(s) ==
    /\ \E t \in FlushTasks : flush[t].pc = "free"
    /\ pendingAssistantText[s] # <<>>
    /\ LET messageIDs == PendingKeys(pendingAssistantText[s]) IN
        flushAssistantMessage(FreeTask, "session.idle", s, Head(messageIDs),
                              Tail(messageIDs))
    /\ UNCHANGED <<cvars, pvars, tvars>>

\* lines 683-685: the loop of flushAllPendingAssistant flushes its next
\* messageID
flushAllPendingAssistant_Next(t) ==
    /\ flush[t].pc = "loop"
    /\ flushAssistantMessage(t, "session.idle", flush[t].sessionID,
                             Head(flush[t].messageIDs),
                             Tail(flush[t].messageIDs))
    /\ UNCHANGED <<cvars, pvars, tvars>>

\* lines 579-603 and 664-675: storeAcontextMessage returns, having stored
\* the message or having logged why it did not (it rejects on nothing: every
\* call it awaits has its catch); the flush marks the message stored, drops
\* its buffered text, and its finally block removes the mark
storeAcontextMessage_Returns(t) ==
    /\ flush[t].pc = "await"
    /\ LET sessionID == flush[t].sessionID
           messageID == flush[t].messageID
           ref == flush[t].inFlight
       IN
        /\ \E ok \in BOOLEAN :
            backendStored' =
                [backendStored EXCEPT ![<<sessionID, messageID>>] =
                    IF ok THEN @ + 1 ELSE @]
        /\ assistantStored' =
                [assistantStored EXCEPT ![sessionID] = @ \cup {messageID}]
        /\ pendingAssistantText' =
                [pendingAssistantText EXCEPT
                    ![sessionID] = PendingDelete(@, messageID)]
        /\ setObjects' = FinallySet(setObjects, ref, messageID)
        /\ assistantInFlight' =
                FinallyMap(assistantInFlight,
                           FinallySet(setObjects, ref, messageID), ref,
                           sessionID)
        /\ flush' = [flush EXCEPT ![t] =
                AfterFlush(flush[t].reason, sessionID, flush[t].messageIDs)]
    /\ UNCHANGED <<lastFlush, storeCalls>>
    /\ UNCHANGED <<cvars, pvars, tvars>>

PluginNext ==
    \/ \E s \in SessionIDs, m \in MessageIDs : Event_MessageCompleted(s, m)
    \/ \E s \in SessionIDs, m \in MessageIDs : Event_MessagePartUpdated(s, m)
    \/ \E s \in SessionIDs : Event_SessionIdle(s)
    \/ \E t \in FlushTasks : flushAllPendingAssistant_Next(t)
    \/ \E t \in FlushTasks : storeAcontextMessage_Returns(t)

\* the messages of a session whose flush waits for storeAcontextMessage
FlushesAwaiting(s) ==
    {flush[t].messageID :
        t \in {u \in FlushTasks :
                flush[u].pc = "await" /\ flush[u].sessionID = s}}

\* C37: each assistant message (sessionID, messageID) is stored at most
\* once, whatever flushes the events trigger and however they interleave: a
\* flush for a message that is stored or in flight returns without storing,
\* and the in-flight mark of a message is there exactly while a flush of it
\* waits for the store, whether the store succeeds or fails.
C37_StoredAtMostOnce ==
    /\ \A k \in SessionIDs \X MessageIDs :
          storeCalls[k] <= 1 /\ backendStored[k] <= storeCalls[k]
    /\ (lastFlush.wasStored \/ lastFlush.wasInFlight) => ~lastFlush.stores
    /\ \A s \in SessionIDs :
          /\ InFlightMarks(s) = FlushesAwaiting(s)
          /\ assistantInFlight[s] # NoSet => InFlightMarks(s) # {}

\* a flush triggered by session.idle found the message in flight and
\* returned; the store of the first flush then failed: the message is
\* marked stored, was sent once, and no mark is left
C37_Witness ==
    \E s \in SessionIDs, m \in MessageIDs :
        /\ lastFlush.called
        /\ lastFlush.reason = "session.idle"
        /\ lastFlush.sessionID = s
        /\ lastFlush.messageID = m
        /\ lastFlush.wasInFlight
        /\ storeCalls[<<s, m>>] = 1
        /\ backendStored[<<s, m>>] = 0
        /\ m \in assistantStored[s]
        /\ assistantInFlight[s] = NoSet

(***************************************************************************)
(* Specifications.  The Publisher and the Consumer share no state (the     *)
(* Consumer owns its channel), so each is checked on its own.              *)
(***************************************************************************)
Init == NewPublisher(MaxFail) /\ ConsumerInit /\ CarrierInit /\ PluginInit

Spec == Init /\ [][Next]_vars

\* the goroutines are scheduled fairly and p.mu is starvation free; what the
\* callers start and what the broker does to connections is left open
FairSpec ==
    /\ Spec
    /\ WF_vars(WatcherNext)
    /\ \A p \in Procs : WF_vars(CallerContinue(p))

\* the same, with attempts failing often enough for the backoff to reach its
\* cap
BackoffInit == NewPublisher(MaxBackoffFail) /\ ConsumerInit /\ CarrierInit /\ PluginInit

BackoffSpec == BackoffInit /\ [][Next]_vars

ConsumerSpec == Init /\ [][ConsumerNext]_vars

\* Handle runs on a goroutine of its own and the broker keeps delivering
\* what is ready within the prefetch window
FairConsumerSpec ==
    /\ ConsumerSpec
    /\ WF_vars(HandleNext)
    /\ WF_vars(BrokerDeliver)

\* the select of line 282 chooses at random among the cases that are ready:
\* a case that is ready again and again is eventually chosen
CancelSpec ==
    /\ ConsumerSpec
    /\ WF_vars(HandleNext)
    /\ SF_vars(Handle_CtxDone)

\* the adapter on any header map
CarrierSpecInit == NewPublisher(MaxFail) /\ ConsumerInit /\ CarrierAnyInit /\ PluginInit

CarrierSpec == CarrierSpecInit /\ [][CarrierNext]_vars

\* getChannel on any Publisher value: closed or not, with or without a
\* channel (a Publisher built inside the package need not have one)
GetChannelInit ==
    /\ \E h \in {Nil, 1}, isClosed \in BOOLEAN :
          PublisherState(MaxFail, h, isClosed)
    /\ ConsumerInit
    /\ CarrierInit
    /\ PluginInit

GetChannelSpec == GetChannelInit /\ [][Next]_vars

\* the event hook of the plugin under any sequence of events
PluginSpec == Init /\ [][PluginNext]_vars

====
